---------------------------- MODULE Spec2Model ----------------------------
(***************************************************************************)
(* The session clock and task cursor of src/src/App.tsx (a React           *)
(* component).  The component's state hooks are the variables; a handler   *)
(* is an operator from the rendered state to the state its batched         *)
(* setState calls produce; the useEffect hooks are operators that look at  *)
(* the previous and the current render (their dependency arrays) and queue *)
(* further updates.  One action is one handler (or one interval tick)      *)
(* followed by the renders and effect flushes it causes, up to the render  *)
(* in which no effect changes the state any more.                          *)
(***************************************************************************)
EXTENDS Integers, Sequences, FiniteSets, TLC

VARIABLES
    tasks,                  \* useState<Task[]>                 (line 44)
    currentTaskIndex,       \* useState                         (line 48)
    timeLeft,               \* useState(0), seconds             (line 52)
    isActive,               \* useState(false)                  (line 53)
    isBreak,                \* useState(false)                  (line 54)
    breakType,              \* useState<'short'|'long'>         (line 55)
    completedSessions,      \* useState                         (line 56)
    shortBreakTime,         \* useState, minutes                (line 66)
    longBreakTime,          \* useState, minutes                (line 70)
    sessionsUntilLongBreak, \* useState                         (line 74)
    storage,                \* localStorage: the text under each of the four keys (lines 5-10)
    broken,                 \* the keys for which localStorage.setItem throws
    permission,             \* Notification.permission, "unsupported" without the API
    notes,                  \* the notifications the last action showed
    form,                   \* the task form: editingTask and the five fields (lines 63, 79-83)
    now,                    \* Date.now() as the last addTask read it
    cue,                    \* the audio cue the last action played, "none" if none
    arg,                    \* history: the task id or index the last handler was given, else 0
    pre,                    \* history: the clock as the last deleteTask found it
    entries,                \* history: the number of entries made in the numeric controls
    lastOp,                 \* history: the handler (or tick) that ran last
    run                     \* history: the focus run a start began, see StartTimer

vars == << tasks, currentTaskIndex, timeLeft, isActive, isBreak, breakType,
           completedSessions, shortBreakTime, longBreakTime,
           sessionsUntilLongBreak, storage, broken, permission, notes,
           form, now, cue, arg, pre, entries, lastOp, run >>

---------------------------------------------------------------------------
(* Bounds of the model and constants of the program *)

MaxTasks == 2           \* longest task list loaded from storage
MaxCycles == 1          \* focus phases completed after the load
MaxStored == 1          \* largest completedSessions found in storage at load
MaxRemoveTasks == 3      \* longest task list loaded in SpecRemove
MaxStoreTasks == 2       \* longest task list built in SpecStore
MaxNow == 2              \* last millisecond of the clock in SpecStore
MaxCursorTasks == 3      \* tasks in the list in SpecCursor
MaxEntryTasks == 1       \* tasks stored in SpecEntry
MaxEntries == 2          \* entries made in the numeric controls in SpecEntry
MaxCycleStored == 9     \* largest completedSessions at load in SpecCycle

SecondsPerMinute == 60
MinDuration == 5
DefaultDuration == 25
MaxDuration == 120
DefaultShortBreak == 5
DefaultLongBreak == 15
DefaultUntil == 4
DurationStep == 5
MaxShortBreak == 30
MaxLongBreak == 60
LongBreakStep == 5
MinShortBreak == 1
MinLongBreak == 5
MinUntil == 2
MaxUntil == 10

\* the durations of the stored tasks: the shortest the form allows and the next
Durations == { MinDuration, MinDuration + 1 }

---------------------------------------------------------------------------
(* The rendered state as one record, and the values derived from it *)

State == [ tasks |-> tasks, idx |-> currentTaskIndex, timeLeft |-> timeLeft,
           isActive |-> isActive, isBreak |-> isBreak, breakType |-> breakType,
           completed |-> completedSessions, short |-> shortBreakTime,
           long |-> longBreakTime, until |-> sessionsUntilLongBreak,
           stored |-> storage, broken |-> broken, permission |-> permission,
           notes |-> notes, cue |-> cue ]

\* the render before the component is mounted: every effect runs after the first render
NoRender == [ unmounted |-> TRUE ]

\* tasks[currentTaskIndex] || null : is there a current task
HasTask(s) == s.idx >= 0 /\ s.idx < Len(s.tasks)

\* the current task (only where HasTask)
currentTask(s) == s.tasks[s.idx + 1]

\* the current task as a value that can be compared between renders
CurrentOf(s) == IF HasTask(s) THEN << currentTask(s) >> ELSE << >>

\* currentTask?.duration
DurationOf(s) == IF HasTask(s) THEN currentTask(s).duration ELSE 0

\* the length in seconds of a break of the given kind
BreakSeconds(s, kind) ==
    IF kind = "short" THEN s.short * SecondsPerMinute ELSE s.long * SecondsPerMinute

\* totalTime
totalTime(s) ==
    IF s.isBreak
    THEN BreakSeconds(s, s.breakType)
    ELSE (IF HasTask(s) THEN currentTask(s).duration ELSE DefaultDuration) * SecondsPerMinute

\* progress = progressNum / totalTime (a float in the code; kept as a fraction)
progressNum(s) == IF s.timeLeft > 0 THEN (totalTime(s) - s.timeLeft) * 100 ELSE 0


---------------------------------------------------------------------------
(* localStorage and JSON.  A stored text is a record: kind "absent" (no    *)
(* item, or the empty string), "garbage" (JSON.parse throws), "null" (the  *)
(* text null) or "json" with the value v that JSON.parse returns.  A JSON  *)
(* object is a function from its member names; JSON.stringify leaves out   *)
(* the members whose value is undefined.  Undefined stands for undefined   *)
(* where a number is expected; a task's empty description for undefined.   *)

Undefined == -1

\* stands for null as currentTaskIndex: tasks[null] is undefined
NullIndex == -2

Absent == [ kind |-> "absent", v |-> 0 ]

Garbage == [ kind |-> "garbage", v |-> 0 ]

NullText == [ kind |-> "null", v |-> 0 ]

Json(value) == [ kind |-> "json", v |-> value ]

\* the members of o without those named in names
without(o, names) == [ f \in (DOMAIN o) \ names |-> o[f] ]

\* mutant: a sessions member of 0 is left out like an undefined member
stringifyTaskDropsZeroSessions(task) ==
    without(task, (IF task.description = << >> THEN { "description" } ELSE { })
                  \cup (IF task.sessions = 0 THEN { "sessions" } ELSE { }))

\* JSON.stringify of one task
stringifyTask(task) ==
    without(task, IF task.description = << >> THEN { "description" } ELSE { })

\* what reading the member f of the parsed task o gives
member(o, f) ==
    IF f \in DOMAIN o THEN o[f]
    ELSE IF f \in { "title", "description", "tags" } THEN << >>
    ELSE IF f = "completed" THEN FALSE
    ELSE IF f = "weightage" THEN "undefined"
    ELSE Undefined

TaskMembers ==
    { "id", "title", "description", "duration", "completed", "sessions",
      "weightage", "tags" }

\* the parsed task as the component reads it
parsedTask(o) == [ f \in TaskMembers |-> member(o, f) ]

\* JSON.stringify(tasks)
tasksText(ts) == Json([ j \in 1 .. Len(ts) |-> stringifyTask(ts[j]) ])

\* JSON.stringify(currentTaskIndex)
indexText(i) == IF i = NullIndex THEN NullText ELSE Json(i)

\* JSON.stringify({ completedSessions })
sessionText(c) ==
    Json(without([ completedSessions |-> c ],
                 IF c = Undefined THEN { "completedSessions" } ELSE { }))

\* JSON.stringify({ shortBreakTime, longBreakTime, sessionsUntilLongBreak })
settingsText(short, long, until) ==
    Json(without([ shortBreakTime |-> short, longBreakTime |-> long,
                   sessionsUntilLongBreak |-> until ],
                 (IF short = Undefined THEN { "shortBreakTime" } ELSE { })
                 \cup (IF long = Undefined THEN { "longBreakTime" } ELSE { })
                 \cup (IF until = Undefined THEN { "sessionsUntilLongBreak" } ELSE { })))

\* saveToStorage: a setItem that throws is caught and logged
saveToStorage(q, key, text) ==
    IF key \in q.broken THEN q ELSE [q EXCEPT !.stored[key] = text]

\* loadFromStorage: the default for no item and for a text that does not
\* parse, else whatever JSON.parse returns
loadFromStorage(text, defaultValue) ==
    IF text.kind \in { "absent", "garbage" } THEN Json(defaultValue) ELSE text

\* loadFromStorage(STORAGE_KEYS.CURRENT_TASK_INDEX, 0)
loadIndex(text) == IF text.kind = "null" THEN NullIndex ELSE loadFromStorage(text, 0).v

\* loadFromStorage(key, { name: defaultValue }).name
loadMember(text, name, defaultValue) ==
    LET r == loadFromStorage(text, [ n \in { name } |-> defaultValue ])
    IN  IF name \in DOMAIN r.v THEN r.v[name] ELSE Undefined

---------------------------------------------------------------------------
(* The effects.  p is the previous render (NoRender on mount), s the       *)
(* render whose effects are being flushed, q the state the updates queued  *)
(* so far produce; each effect returns q with its own updates applied.     *)
(* An effect runs when one of its dependencies differs between p and s;    *)
(* its body reads s (the closure of the render), never q.                  *)

\* did the object behind currentTask change between the renders p and s;
\* recreated: the handler rebuilt the task object (prev.map with a spread)
TaskChanged(p, s, recreated) ==
    p = NoRender \/ recreated \/ CurrentOf(p) # CurrentOf(s)

\* "Initialize timer when current task changes or when not active"
initEffect(p, s, recreated, q) ==
    IF \/ TaskChanged(p, s, recreated)
       \/ p.isBreak # s.isBreak
       \/ p.timeLeft # s.timeLeft
    THEN IF HasTask(s) /\ ~s.isBreak /\ s.timeLeft = 0
         THEN [q EXCEPT !.timeLeft = currentTask(s).duration * SecondsPerMinute]
         ELSE q
    ELSE q

\* mutant: the effect depends on the duration alone, as its comment says
durationEffectOnDurationOnly(p, s, q) ==
    IF p = NoRender \/ DurationOf(p) # DurationOf(s)
    THEN IF HasTask(s) /\ ~s.isBreak /\ ~s.isActive
         THEN [q EXCEPT !.timeLeft = currentTask(s).duration * SecondsPerMinute]
         ELSE q
    ELSE q

\* "Update timer when current task duration changes"
durationEffect(p, s, q) ==
    IF \/ p = NoRender
       \/ DurationOf(p) # DurationOf(s)
       \/ p.isBreak # s.isBreak
       \/ p.isActive # s.isActive
    THEN IF HasTask(s) /\ ~s.isBreak /\ ~s.isActive
         THEN [q EXCEPT !.timeLeft = currentTask(s).duration * SecondsPerMinute]
         ELSE q
    ELSE q

\* mutant: the effect that saves currentTaskIndex is left out
saveEffectsWithoutIndex(p, s, recreated, q) ==
    LET q1 == IF p = NoRender \/ recreated \/ p.tasks # s.tasks
              THEN saveToStorage(q, "tasks", tasksText(s.tasks)) ELSE q
        q3 == IF p = NoRender \/ p.completed # s.completed
              THEN saveToStorage(q1, "session", sessionText(s.completed)) ELSE q1
    IN  IF p = NoRender \/ p.short # s.short \/ p.long # s.long \/ p.until # s.until
        THEN saveToStorage(q3, "settings", settingsText(s.short, s.long, s.until))
        ELSE q3

\* "Save to localStorage": the four effects, each on its own dependencies
saveEffects(p, s, recreated, q) ==
    LET q1 == IF p = NoRender \/ recreated \/ p.tasks # s.tasks
              THEN saveToStorage(q, "tasks", tasksText(s.tasks)) ELSE q
        q2 == IF p = NoRender \/ p.idx # s.idx
              THEN saveToStorage(q1, "index", indexText(s.idx)) ELSE q1
        q3 == IF p = NoRender \/ p.completed # s.completed
              THEN saveToStorage(q2, "session", sessionText(s.completed)) ELSE q2
    IN  IF p = NoRender \/ p.short # s.short \/ p.long # s.long \/ p.until # s.until
        THEN saveToStorage(q3, "settings", settingsText(s.short, s.long, s.until))
        ELSE q3

\* mutant: only a denied permission keeps the notification back
notifyUnlessDenied(s, q, title) ==
    IF s.permission # "denied" THEN [q EXCEPT !.notes = Append(@, title)] ELSE q

\* new Notification(title) behind the test of the API and of the permission
notify(s, q, title) ==
    IF s.permission = "granted" THEN [q EXCEPT !.notes = Append(@, title)] ELSE q

\* mutant: the kind is computed from the count before its increment
nextBreakTypeStaleCount(newCompletedSessions, until) ==
    IF (newCompletedSessions - 1) % until = 0 THEN "long" ELSE "short"

\* nextBreakType, from the new count of completed sessions
nextBreakType(newCompletedSessions, until) ==
    IF newCompletedSessions % until = 0 THEN "long" ELSE "short"

\* mutant: the map credits every task
incrementSessionsOfAll(ts, id) ==
    [ i \in 1 .. Len(ts) |-> [ts[i] EXCEPT !.sessions = @ + 1] ]

\* prev.map(task => task.id === id ? {...task, sessions: task.sessions + 1} : task)
incrementSessions(ts, id) ==
    [ i \in 1 .. Len(ts) |->
        IF ts[i].id = id THEN [ts[i] EXCEPT !.sessions = @ + 1] ELSE ts[i] ]

\* mutant: the break is not entered (setIsBreak(true) left out)
focusCompletedNoBreak(s, q) ==
    LET newCompletedSessions == s.completed + 1
        kind == nextBreakType(newCompletedSessions, s.until)
    IN  notify(s,
               [q EXCEPT !.completed = newCompletedSessions,
                         !.tasks = incrementSessions(q.tasks, currentTask(s).id),
                         !.breakType = kind,
                         !.timeLeft = BreakSeconds(s, kind),
                         !.cue = "breakStart"],
               "Focus session complete!")

\* "Work session completed - start break"
focusCompleted(s, q) ==
    LET newCompletedSessions == s.completed + 1
        kind == nextBreakType(newCompletedSessions, s.until)
    IN  notify(s,
               [q EXCEPT !.completed = newCompletedSessions,
                         !.tasks = incrementSessions(q.tasks, currentTask(s).id),
                         !.breakType = kind,
                         !.isBreak = TRUE,
                         !.timeLeft = BreakSeconds(s, kind),
                         !.cue = "breakStart"],
               "Focus session complete!")

\* mutant: the countdown is left running (setIsActive(false) left out)
breakCompletedKeepsRunning(s, q) ==
    LET r == [q EXCEPT !.isBreak = FALSE, !.cue = "focusStart"]
    IN  notify(s,
               IF HasTask(s)
               THEN [r EXCEPT !.timeLeft = currentTask(s).duration * SecondsPerMinute]
               ELSE r,
               "Break complete!")

\* "Break completed - return to focus"
breakCompleted(s, q) ==
    LET r == [q EXCEPT !.isBreak = FALSE, !.isActive = FALSE, !.cue = "focusStart"]
    IN  notify(s,
               IF HasTask(s)
               THEN [r EXCEPT !.timeLeft = currentTask(s).duration * SecondsPerMinute]
               ELSE r,
               "Break complete!")

\* mutant: no interval is armed for the last second
TickingAboveOne(s) == s.isActive /\ s.timeLeft > 1

\* is the one-second interval armed in the render s
Ticking(s) == s.isActive /\ s.timeLeft > 0

\* "Timer logic"
timerEffect(p, s, recreated, q) ==
    IF \/ TaskChanged(p, s, recreated)
       \/ p.isActive # s.isActive
       \/ p.timeLeft # s.timeLeft
       \/ p.isBreak # s.isBreak
       \/ p.completed # s.completed
       \/ p.short # s.short
       \/ p.long # s.long
       \/ p.until # s.until
       \/ p.breakType # s.breakType
    THEN IF Ticking(s)
         THEN q
         ELSE IF s.timeLeft = 0 /\ s.isActive
              THEN IF ~s.isBreak /\ HasTask(s)
                   THEN focusCompleted(s, q)
                   ELSE breakCompleted(s, q)
              ELSE q
    ELSE q

\* mutant: the timer effect is flushed before the two initialising effects
RunEffectsTimerFirst(p, s, recreated) ==
    saveEffects(p, s, recreated,
        durationEffect(p, s,
            initEffect(p, s, recreated,
                timerEffect(p, s, recreated, s))))

\* one flush: the effects in the order the component declares them
RunEffects(p, s, recreated) ==
    timerEffect(p, s, recreated,
        saveEffects(p, s, recreated,
            durationEffect(p, s,
                initEffect(p, s, recreated, s))))

\* render and flush until a flush leaves the state as rendered
RECURSIVE Settle(_, _, _)
Settle(p, s, recreated) ==
    LET q == RunEffects(p, s, recreated)
    IN  IF q = s THEN s ELSE Settle(s, q, FALSE)

---------------------------------------------------------------------------
(* The handlers: from the rendered state to the state after the batch *)

\* mutant: no early return
startTimerUnguarded(s) == [s EXCEPT !.isActive = TRUE]

startTimer(s) ==
    IF ~HasTask(s) /\ ~s.isBreak THEN s ELSE [s EXCEPT !.isActive = TRUE]

toggleTimer(s) == [s EXCEPT !.isActive = ~s.isActive]

\* mutant: a break is always restored to the short break's length
resetTimerShortOnly(s) ==
    LET r == [s EXCEPT !.isActive = FALSE]
    IN  IF s.isBreak
        THEN [r EXCEPT !.timeLeft = BreakSeconds(s, "short")]
        ELSE IF HasTask(s)
             THEN [r EXCEPT !.timeLeft = currentTask(s).duration * SecondsPerMinute]
             ELSE r

resetTimer(s) ==
    LET r == [s EXCEPT !.isActive = FALSE]
    IN  IF s.isBreak
        THEN [r EXCEPT !.timeLeft = BreakSeconds(s, s.breakType)]
        ELSE IF HasTask(s)
             THEN [r EXCEPT !.timeLeft = currentTask(s).duration * SecondsPerMinute]
             ELSE r

\* mutant: the break is not left (setIsBreak(false) left out)
stopSessionKeepsBreak(s) ==
    LET r == [s EXCEPT !.isActive = FALSE]
    IN  IF HasTask(s)
        THEN [r EXCEPT !.timeLeft = currentTask(s).duration * SecondsPerMinute]
        ELSE r

stopSession(s) ==
    LET r == [s EXCEPT !.isActive = FALSE, !.isBreak = FALSE]
    IN  IF HasTask(s)
        THEN [r EXCEPT !.timeLeft = currentTask(s).duration * SecondsPerMinute]
        ELSE r

\* mutant: the countdown is not stopped (setIsActive(false) left out)
selectTaskKeepsRunning(s, taskIndex) ==
    [s EXCEPT !.idx = taskIndex, !.isBreak = FALSE]

selectTask(s, taskIndex) ==
    [s EXCEPT !.idx = taskIndex, !.isActive = FALSE, !.isBreak = FALSE]

\* tasks.findIndex(task => task.id === taskId), zero-based, -1 when absent
RECURSIVE findIndex(_, _)
findIndex(ts, taskId) ==
    IF ts = << >> THEN -1
    ELSE IF Head(ts).id = taskId THEN 0
    ELSE LET r == findIndex(Tail(ts), taskId) IN IF r = -1 THEN -1 ELSE r + 1

\* prev.filter(task => task.id !== taskId)
RECURSIVE withoutId(_, _)
withoutId(ts, taskId) ==
    IF ts = << >> THEN << >>
    ELSE IF Head(ts).id = taskId THEN withoutId(Tail(ts), taskId)
    ELSE << Head(ts) >> \o withoutId(Tail(ts), taskId)

Max(a, b) == IF a >= b THEN a ELSE b

Min(a, b) == IF a <= b THEN a ELSE b

\* mutant: the clock is left as it was (setIsActive(false), setIsBreak(false) left out)
deleteTaskKeepsClock(s, taskId) ==
    LET taskIndex == findIndex(s.tasks, taskId)
        r == [s EXCEPT !.tasks = withoutId(s.tasks, taskId)]
    IN  IF taskIndex = s.idx /\ s.idx >= Len(s.tasks) - 1
        THEN [r EXCEPT !.idx = Max(0, Len(s.tasks) - 2)]
        ELSE IF taskIndex < s.idx
             THEN [r EXCEPT !.idx = s.idx - 1]
             ELSE r

\* mutant: the cursor is never moved
deleteTaskKeepsIndex(s, taskId) ==
    [s EXCEPT !.tasks = withoutId(s.tasks, taskId),
              !.isActive = FALSE, !.isBreak = FALSE]

deleteTask(s, taskId) ==
    LET taskIndex == findIndex(s.tasks, taskId)
        r == [s EXCEPT !.tasks = withoutId(s.tasks, taskId),
                       !.isActive = FALSE, !.isBreak = FALSE]
    IN  IF taskIndex = s.idx /\ s.idx >= Len(s.tasks) - 1
        THEN [r EXCEPT !.idx = Max(0, Len(s.tasks) - 2)]
        ELSE IF taskIndex < s.idx
             THEN [r EXCEPT !.idx = s.idx - 1]
             ELSE r

\* the form as resetForm leaves it; editing = 0 stands for editingTask = null
EmptyForm ==
    [ editing |-> 0, title |-> << >>, description |-> << >>,
      duration |-> DefaultDuration, weightage |-> "medium", tags |-> << >> ]

\* String.prototype.trim on a string given as the sequence of its characters
RECURSIVE trimStart(_)
trimStart(str) ==
    IF str # << >> /\ Head(str) = " " THEN trimStart(Tail(str)) ELSE str

RECURSIVE trimEnd(_)
trimEnd(str) ==
    IF str # << >> /\ str[Len(str)] = " "
    THEN trimEnd(SubSeq(str, 1, Len(str) - 1))
    ELSE str

trim(str) == trimEnd(trimStart(str))

\* str.split(','): the pieces between the commas, one piece for the empty string
RECURSIVE split(_)
split(str) ==
    IF str = << >> THEN << << >> >>
    ELSE IF Head(str) = "," THEN << << >> >> \o split(Tail(str))
    ELSE LET r == split(Tail(str)) IN << << Head(str) >> \o Head(r) >> \o Tail(r)

\* tags.join(', ')
RECURSIVE join(_)
join(tags) ==
    IF tags = << >> THEN << >>
    ELSE IF Len(tags) = 1 THEN Head(tags)
    ELSE Head(tags) \o << ",", " " >> \o join(Tail(tags))

nonEmpty(tag) == tag # << >>

\* taskTags.split(',').map(tag => tag.trim()).filter(tag => tag.length > 0)
tagsArray(str) ==
    LET pieces == split(str)
    IN  SelectSeq([ j \in 1 .. Len(pieces) |-> trim(pieces[j]) ], nonEmpty)

\* the task addTask builds from the form f at Date.now() = t; the empty
\* description stands for undefined
newTask(f, t) ==
    [ id |-> t, title |-> trim(f.title), description |-> trim(f.description),
      duration |-> f.duration, completed |-> FALSE, sessions |-> 0,
      weightage |-> f.weightage, tags |-> tagsArray(f.tags) ]

\* mutant: the title is tested without the trim
addTaskUntrimmedGuard(s, f, t) ==
    IF f.title = << >>
    THEN [ s |-> s, form |-> f ]
    ELSE [ s |-> [s EXCEPT !.tasks = Append(@, newTask(f, t)),
                           !.idx = IF Len(s.tasks) = 0 THEN 0 ELSE @],
           form |-> EmptyForm ]

\* mutant: the new task is put in front
addTaskInFront(s, f, t) ==
    IF trim(f.title) = << >>
    THEN [ s |-> s, form |-> f ]
    ELSE [ s |-> [s EXCEPT !.tasks = << newTask(f, t) >> \o @,
                           !.idx = IF Len(s.tasks) = 0 THEN 0 ELSE @],
           form |-> EmptyForm ]

\* addTask with the form f at Date.now() = t: the state and the form it leaves
addTask(s, f, t) ==
    IF trim(f.title) = << >>
    THEN [ s |-> s, form |-> f ]
    ELSE [ s |-> [s EXCEPT !.tasks = Append(@, newTask(f, t)),
                           !.idx = IF Len(s.tasks) = 0 THEN 0 ELSE @],
           form |-> EmptyForm ]

\* { ...task, title, description, duration, weightage, tags } from the form f
edited(task, f) ==
    [task EXCEPT !.title = trim(f.title), !.description = trim(f.description),
                 !.duration = f.duration, !.weightage = f.weightage,
                 !.tags = tagsArray(f.tags)]

\* mutant: the edited task is rebuilt as a new one, its sessions lost
updateTaskAsNew(s, f) ==
    IF f.editing = 0 \/ trim(f.title) = << >>
    THEN [ s |-> s, form |-> f ]
    ELSE [ s |-> [s EXCEPT !.tasks =
                      [ j \in 1 .. Len(s.tasks) |->
                          IF s.tasks[j].id = f.editing
                          THEN newTask(f, f.editing)
                          ELSE s.tasks[j] ]],
           form |-> EmptyForm ]

\* updateTask with the form f: the state and the form it leaves
updateTask(s, f) ==
    IF f.editing = 0 \/ trim(f.title) = << >>
    THEN [ s |-> s, form |-> f ]
    ELSE [ s |-> [s EXCEPT !.tasks =
                      [ j \in 1 .. Len(s.tasks) |->
                          IF s.tasks[j].id = f.editing
                          THEN edited(s.tasks[j], f)
                          ELSE s.tasks[j] ]],
           form |-> EmptyForm ]

\* openTaskForm(task): the form filled from the task
openTaskForm(task) ==
    [ editing |-> task.id, title |-> task.title, description |-> task.description,
      duration |-> task.duration, weightage |-> task.weightage,
      tags |-> join(task.tags) ]

\* parseInt(e.target.value) || fallback, for the number typed; 0 also stands
\* for a text parseInt gives NaN for, which || treats like 0
parsedOr(n, fallback) == IF n = 0 THEN fallback ELSE n

\* mutant: the upper limit is left out
typedDurationNoUpper(n) == Max(MinDuration, parsedOr(n, MinDuration))

\* the duration field's onChange with the number typed
typedDuration(n) == Max(MinDuration, Min(MaxDuration, parsedOr(n, MinDuration)))

\* the duration field's - and + buttons
durationMinus(f) == [f EXCEPT !.duration = Max(MinDuration, f.duration - DurationStep)]

durationPlus(f) == [f EXCEPT !.duration = Min(MaxDuration, f.duration + DurationStep)]

durationTyped(f, n) == [f EXCEPT !.duration = typedDuration(n)]

\* the title field's onChange
setTaskTitle(f, v) == [f EXCEPT !.title = v]

\* the settings' - and + buttons and number fields
shortBreakMinus(s) == [s EXCEPT !.short = Max(MinShortBreak, s.short - 1)]

shortBreakPlus(s) == [s EXCEPT !.short = Min(MaxShortBreak, s.short + 1)]

shortBreakTyped(s, n) ==
    [s EXCEPT !.short = Max(MinShortBreak, Min(MaxShortBreak, parsedOr(n, MinShortBreak)))]

longBreakMinus(s) == [s EXCEPT !.long = Max(MinLongBreak, s.long - LongBreakStep)]

longBreakPlus(s) == [s EXCEPT !.long = Min(MaxLongBreak, s.long + LongBreakStep)]

longBreakTyped(s, n) ==
    [s EXCEPT !.long = Max(MinLongBreak, Min(MaxLongBreak, parsedOr(n, MinLongBreak)))]

untilMinus(s) == [s EXCEPT !.until = Max(MinUntil, s.until - 1)]

untilPlus(s) == [s EXCEPT !.until = Min(MaxUntil, s.until + 1)]

untilTyped(s, n) ==
    [s EXCEPT !.until = Max(MinUntil, Min(MaxUntil, parsedOr(n, MinUntil)))]

\* the onChange handlers of the five fields, each a setter, with the values of v
fillForm(f, v) ==
    [f EXCEPT !.title = v.title, !.description = v.description,
              !.duration = typedDuration(v.typed), !.weightage = v.weightage,
              !.tags = v.tags]

nextTaskHandler(s) ==
    IF s.idx < Len(s.tasks) - 1
    THEN [s EXCEPT !.idx = s.idx + 1, !.isActive = FALSE, !.isBreak = FALSE]
    ELSE s

previousTaskHandler(s) ==
    IF s.idx > 0
    THEN [s EXCEPT !.idx = s.idx - 1, !.isActive = FALSE, !.isBreak = FALSE]
    ELSE s

\* mutant: the callback takes two seconds off
tickTwo(s) == [s EXCEPT !.timeLeft = s.timeLeft - 2]

\* the interval callback: setTimeLeft((time) => time - 1)
tick(s) == [s EXCEPT !.timeLeft = s.timeLeft - 1]

---------------------------------------------------------------------------
(* The state machine *)

NoPre == [ isActive |-> FALSE, isBreak |-> FALSE ]

NoRun == [ on |-> FALSE, ticks |-> 0, base |-> 0 ]

\* the next state is the record s
Commit(s) ==
    /\ tasks' = s.tasks
    /\ currentTaskIndex' = s.idx
    /\ timeLeft' = s.timeLeft
    /\ isActive' = s.isActive
    /\ isBreak' = s.isBreak
    /\ breakType' = s.breakType
    /\ completedSessions' = s.completed
    /\ shortBreakTime' = s.short
    /\ longBreakTime' = s.long
    /\ sessionsUntilLongBreak' = s.until
    /\ storage' = s.stored
    /\ notes' = s.notes
    /\ cue' = s.cue
    /\ UNCHANGED << broken, permission >>

\* the rendered state as an action finds it: no cue played, no notification
\* shown yet
Rendered == [State EXCEPT !.cue = "none", !.notes = << >>]

\* a handler given the argument a has produced the state s from Rendered;
\* recreated: it rebuilt the current task's object
HandleArg(s, recreated, op, a) ==
    /\ Commit(Settle(Rendered, s, recreated))
    /\ lastOp' = op
    /\ arg' = a
    /\ UNCHANGED entries

\* a handler of the clock or the cursor: the form and Date.now() are not touched
Handle(s, op) ==
    /\ HandleArg(s, FALSE, op, 0)
    /\ pre' = NoPre
    /\ UNCHANGED << form, now >>

\* a stored task: titled "a", nothing optional filled in, no session credited
StoredTask(i, d) ==
    [ id |-> i, title |-> << "a" >>, description |-> << >>, duration |-> d,
      completed |-> FALSE, sessions |-> 0, weightage |-> "medium", tags |-> << >> ]

\* the task lists found in storage: up to MaxTasks tasks with ids 1..n in
\* order, of the shortest duration except possibly the last, no session
\* credited yet
StoredTasks ==
    UNION { { [ i \in 1 .. n |->
                StoredTask(i, IF i = n THEN d ELSE MinDuration) ] : d \in Durations }
            : n \in 0 .. MaxTasks }

\* what the four keys hold after a session that ended with these values
Found(ts, i, c, short, long, k) ==
    [ tasks |-> tasksText(ts), index |-> indexText(i), session |-> sessionText(c),
      settings |-> settingsText(short, long, k) ]

\* the state of the useState initialisers on the storage found, before the
\* first flush (none of the texts read through a member is null)
LoadedFrom(found, brk, perm) ==
    LET ts == loadFromStorage(found.tasks, << >>).v
    IN  [ tasks |-> [ j \in 1 .. Len(ts) |-> parsedTask(ts[j]) ],
          idx |-> loadIndex(found.index),
          timeLeft |-> 0, isActive |-> FALSE,
          isBreak |-> FALSE, breakType |-> "short",
          completed |-> loadMember(found.session, "completedSessions", 0),
          short |-> loadMember(found.settings, "shortBreakTime", DefaultShortBreak),
          long |-> loadMember(found.settings, "longBreakTime", DefaultLongBreak),
          until |-> loadMember(found.settings, "sessionsUntilLongBreak", DefaultUntil),
          stored |-> found, broken |-> brk, permission |-> perm,
          notes |-> << >>, cue |-> "none" ]

\* the initialisers on the storage of a session with the shortest breaks, the
\* storage writable and the notifications granted
Loaded(ts, i, c, k) ==
    LoadedFrom(Found(ts, i, c, MinShortBreak, MinLongBreak, k), { }, "granted")

\* the component is mounted on the loaded state l: the first render and its flushes
MountOn(l) ==
        LET s == Settle(NoRender, l, FALSE)
        IN  /\ tasks = s.tasks
            /\ currentTaskIndex = s.idx
            /\ timeLeft = s.timeLeft
            /\ isActive = s.isActive
            /\ isBreak = s.isBreak
            /\ breakType = s.breakType
            /\ completedSessions = s.completed
            /\ shortBreakTime = s.short
            /\ longBreakTime = s.long
            /\ sessionsUntilLongBreak = s.until
            /\ storage = s.stored
            /\ broken = s.broken
            /\ permission = s.permission
            /\ notes = s.notes
            /\ cue = s.cue
            /\ form = EmptyForm
            /\ now = Len(s.tasks) + 1
            /\ arg = 0
            /\ pre = NoPre
            /\ entries = 0
            /\ lastOp = "load"
            /\ run = NoRun

\* the component is mounted on what storage holds
Mount(ts, i, c, k) == MountOn(Loaded(ts, i, c, k))

Init ==
    \E ts \in StoredTasks, c \in 0 .. MaxStored :
      \E i \in 0 .. (IF Len(ts) = 0 THEN 0 ELSE Len(ts) - 1) :
        Mount(ts, i, c, MinUntil)

\* a start that begins a focus phase: not running before, running after, not in a break
FreshStart == ~isActive /\ ~isBreak /\ HasTask(State)

StartTimer ==
    /\ Handle(startTimer(Rendered), "start")
    /\ run' = IF FreshStart
              THEN [ on |-> TRUE, ticks |-> 0, base |-> completedSessions ]
              ELSE NoRun

ToggleTimer == Handle(toggleTimer(Rendered), "toggle") /\ run' = NoRun

ResetTimer == Handle(resetTimer(Rendered), "reset") /\ run' = NoRun

StopSession == Handle(stopSession(Rendered), "stop") /\ run' = NoRun

\* selectTask given taskIndex
Select(taskIndex) ==
    /\ HandleArg(selectTask(Rendered, taskIndex), FALSE, "select", taskIndex)
    /\ pre' = NoPre
    /\ UNCHANGED << form, now >>
    /\ run' = NoRun

\* a click on a task of the list: tasks.map((task, index) => ... selectTask(index))
SelectTask == \E taskIndex \in 0 .. (Len(tasks) - 1) : Select(taskIndex)

NextTask == Handle(nextTaskHandler(Rendered), "next") /\ run' = NoRun

PreviousTask == Handle(previousTaskHandler(Rendered), "prev") /\ run' = NoRun

\* the ids of the tasks of ts
IdsOf(ts) == { ts[j].id : j \in 1 .. Len(ts) }

\* deleteTask given taskId
Delete(taskId) ==
    /\ HandleArg(deleteTask(Rendered, taskId), FALSE, "delete", taskId)
    /\ pre' = [ isActive |-> isActive, isBreak |-> isBreak ]
    /\ UNCHANGED << form, now >>
    /\ run' = NoRun

\* the delete button of a task of the list, or of the current task
DeleteTask == \E taskId \in IdsOf(tasks) : Delete(taskId)

\* the interval fires
TickStep ==
    /\ Ticking(State)
    /\ Handle(tick(Rendered), "tick")
    /\ run' = IF run.on THEN [run EXCEPT !.ticks = @ + 1] ELSE run

\* the sessions credited to the tasks of ts (all of them since the load:
\* StoredTasks holds none)
RECURSIVE Credited(_)
Credited(ts) == IF ts = << >> THEN 0 ELSE Head(ts).sessions + Credited(Tail(ts))

\* a focus countdown runs only while fewer than MaxCycles phases were completed
Tick == (isBreak \/ Credited(tasks) < MaxCycles) /\ TickStep

Next ==
    \/ StartTimer
    \/ ToggleTimer
    \/ ResetTimer
    \/ StopSession
    \/ SelectTask
    \/ NextTask
    \/ PreviousTask
    \/ Tick

Spec == Init /\ [][Next]_vars

(* One focus phase and its break, with nothing but the start and the       *)
(* ticks, for every sessionsUntilLongBreak of the settings form and a      *)
(* range of stored counts.                                                 *)

InitCycle ==
    \E c \in 0 .. MaxCycleStored, k \in MinUntil .. MaxUntil :
        Mount(<< StoredTask(1, MinDuration) >>, 0, c, k)

StartOnce == lastOp = "load" /\ StartTimer

NextCycle == StartOnce \/ TickStep

SpecCycle == InitCycle /\ [][NextCycle]_vars

\* the same with the interval firing: setInterval calls its callback every
\* second for as long as the interval is armed.  This is WF_vars(TickStep)
\* with the enabling condition of TickStep, Ticking(State), written out.
SpecCycleFair ==
    SpecCycle /\ ([]<>(~Ticking(State)) \/ []<><<TickStep>>_vars)

(* The clock with the removal of tasks: lists of up to MaxRemoveTasks      *)
(* tasks of the shortest duration, started, paused, counted down into and  *)
(* through the breaks, with any task removed at any moment.                *)

InitRemove ==
    \E n \in 0 .. MaxRemoveTasks :
        \E i \in 0 .. Max(0, n - 1) :
            Mount([ j \in 1 .. n |-> StoredTask(j, MinDuration) ], i, MaxStored, MinUntil)

\* a focus countdown runs only while the count is below MaxStored + MaxCycles
TickRemove == (isBreak \/ completedSessions < MaxStored + MaxCycles) /\ TickStep

NextRemove ==
    \/ StartTimer
    \/ ToggleTimer
    \/ TickRemove
    \/ DeleteTask

SpecRemove == InitRemove /\ [][NextRemove]_vars

(* The task store: tasks added from the form, edited, removed and          *)
(* selected, starting from the empty store or from one stored task that    *)
(* was credited a session.  Date.now() counts milliseconds: two calls of   *)
(* addTask within one millisecond read the same value.                     *)

\* what is typed into the form: a plain title with the defaults; every field
\* filled, padded with blanks, the duration below the minimum, an empty tag;
\* a blank title with the other fields filled
FormInputs ==
    { [ title |-> << "a" >>, description |-> << >>, typed |-> DefaultDuration,
        weightage |-> "medium", tags |-> << >> ],
      [ title |-> << " ", "b", " " >>, description |-> << "d", " " >>,
        typed |-> MinDuration - 2, weightage |-> "high",
        tags |-> << "x", ",", " ", ",", "y" >> ],
      [ title |-> << " " >>, description |-> << "d" >>, typed |-> MinDuration,
        weightage |-> "high", tags |-> << "x" >> ] }

InitStore ==
    \/ Mount(<< >>, 0, 0, MinUntil)
    \/ Mount(<< [StoredTask(1, MinDuration) EXCEPT !.sessions = 1] >>, 0, 1, MinUntil)

\* a handler of the form alone
FormOnly(f, op, a) ==
    /\ HandleArg(Rendered, FALSE, op, a)
    /\ form' = f
    /\ pre' = NoPre
    /\ UNCHANGED << now, run >>

FillForm == \E v \in FormInputs : FormOnly(fillForm(form, v), "fill", 0)

\* the edit button of a task of the list, or of the current task
OpenTaskForm ==
    \E j \in 1 .. Len(tasks) : FormOnly(openTaskForm(tasks[j]), "open", tasks[j].id)

\* openTaskForm() for a new task, and the form's cancel button
ResetForm == FormOnly(EmptyForm, "resetForm", 0)

\* the form's button while editingTask is null; the clock reads t
AddBelow(limit, clock) ==
    /\ Len(tasks) < limit
    /\ \E t \in clock :
          /\ t <= MaxNow
          /\ LET r == addTask(Rendered, form, t)
             IN  /\ HandleArg(r.s, FALSE, "add", t)
                 /\ form' = r.form
          /\ now' = t
    /\ pre' = NoPre
    /\ UNCHANGED run

\* the clock may not have moved since the task before was added
AddTask == AddBelow(MaxStoreTasks, { now, now + 1 })

\* the form's button while a task is being edited; the map rebuilds the
\* object of every task with the id
UpdateTask ==
    LET r == updateTask(Rendered, form)
        recreated == /\ r.s # Rendered \/ r.form # form
                     /\ HasTask(Rendered)
                     /\ currentTask(Rendered).id = form.editing
    IN  /\ HandleArg(r.s, recreated, "update", form.editing)
        /\ form' = r.form
        /\ pre' = NoPre
        /\ UNCHANGED << now, run >>

NextStore ==
    \/ FillForm
    \/ OpenTaskForm
    \/ ResetForm
    \/ AddTask
    \/ UpdateTask
    \/ DeleteTask
    \/ SelectTask
    \/ StartTimer

SpecStore == InitStore /\ [][NextStore]_vars

(* The numeric controls of the task form and of the settings, from the     *)
(* defaults of the empty storage, with the tasks stored from the form; at  *)
(* most MaxEntries entries are made in the controls.                       *)

\* the numbers typed: a negative one, 0 (or no number), one inside every
\* range, one above every range
Typed == { -2, 0, 7, 200 }

NothingFound == [ tasks |-> Absent, index |-> Absent, session |-> Absent, settings |-> Absent ]

InitEntry == MountOn(LoadedFrom(NothingFound, { }, "granted"))

\* an entry in a control of the settings has produced s
SettingsEntry(s, op) ==
    /\ entries < MaxEntries
    /\ Commit(Settle(Rendered, s, FALSE))
    /\ lastOp' = op
    /\ entries' = entries + 1
    /\ arg' = 0
    /\ pre' = NoPre
    /\ UNCHANGED << form, now, run >>

\* an entry in the duration control of the task form has produced f
DurationEntry(f, op) ==
    /\ entries < MaxEntries
    /\ Commit(Settle(Rendered, Rendered, FALSE))
    /\ form' = f
    /\ lastOp' = op
    /\ entries' = entries + 1
    /\ arg' = 0
    /\ pre' = NoPre
    /\ UNCHANGED << now, run >>

ShortBreakMinus == SettingsEntry(shortBreakMinus(Rendered), "shortMinus")

ShortBreakPlus == SettingsEntry(shortBreakPlus(Rendered), "shortPlus")

ShortBreakTyped == \E n \in Typed : SettingsEntry(shortBreakTyped(Rendered, n), "shortTyped")

LongBreakMinus == SettingsEntry(longBreakMinus(Rendered), "longMinus")

LongBreakPlus == SettingsEntry(longBreakPlus(Rendered), "longPlus")

LongBreakTyped == \E n \in Typed : SettingsEntry(longBreakTyped(Rendered, n), "longTyped")

UntilMinus == SettingsEntry(untilMinus(Rendered), "untilMinus")

UntilPlus == SettingsEntry(untilPlus(Rendered), "untilPlus")

UntilTyped == \E n \in Typed : SettingsEntry(untilTyped(Rendered, n), "untilTyped")

DurationMinus == DurationEntry(durationMinus(form), "durationMinus")

DurationPlus == DurationEntry(durationPlus(form), "durationPlus")

DurationTyped == \E n \in Typed : DurationEntry(durationTyped(form, n), "durationTyped")

\* the title "a" is typed
TitleTyped == FormOnly(setTaskTitle(form, << "a" >>), "title", 0)

\* the form's button, the clock having moved
AddEntryTask == AddBelow(MaxEntryTasks, { now + 1 })

NextEntry ==
    \/ ShortBreakMinus \/ ShortBreakPlus \/ ShortBreakTyped
    \/ LongBreakMinus \/ LongBreakPlus \/ LongBreakTyped
    \/ UntilMinus \/ UntilPlus \/ UntilTyped
    \/ DurationMinus \/ DurationPlus \/ DurationTyped
    \/ TitleTyped
    \/ AddEntryTask
    \/ OpenTaskForm
    \/ UpdateTask

SpecEntry == InitEntry /\ [][NextEntry]_vars

(* The storage while the application runs: two stored tasks, the clock,    *)
(* the cursor, a removal and a setting between the countdowns, where      *)
(* localStorage.setItem fails for none, one or all of the keys, and starts *)
(* or stops failing between the countdowns.                                *)

Keys == { "tasks", "index", "session", "settings" }

\* the keys setItem throws for: none, one of them, all of them
BrokenSets == { { } } \cup { { key } : key \in Keys } \cup { Keys }

InitPersist ==
    \E brk \in BrokenSets :
        MountOn(LoadedFrom(Found(<< StoredTask(1, MinDuration), StoredTask(2, MinDuration) >>,
                                 0, 0, MinShortBreak, MinLongBreak, MinUntil),
                           brk, "granted"))

\* the interval fires in a focus phase, while fewer than MaxCycles phases
\* were completed
TickPersist == ~isBreak /\ completedSessions < MaxCycles /\ TickStep

\* the buttons are pressed while no countdown runs
SelectIdle == ~isActive /\ SelectTask

DeleteIdle == ~isActive /\ DeleteTask

ShortBreakPlusIdle == ~isActive /\ ShortBreakPlus

StartIdle == ~isActive /\ StartTimer

\* setItem starts or stops throwing for some keys, while no countdown runs
StorageChanges ==
    /\ ~isActive
    /\ \E brk \in BrokenSets \ { broken } : broken' = brk
    /\ lastOp' = "storage"
    /\ cue' = "none"
    /\ notes' = << >>
    /\ arg' = 0
    /\ pre' = NoPre
    /\ UNCHANGED << tasks, currentTaskIndex, timeLeft, isActive, isBreak, breakType,
                    completedSessions, shortBreakTime, longBreakTime,
                    sessionsUntilLongBreak, storage, permission, form, now, entries, run >>

NextPersist ==
    \/ StartIdle
    \/ TickPersist
    \/ SelectIdle
    \/ DeleteIdle
    \/ ShortBreakPlusIdle
    \/ StorageChanges

SpecPersist == InitPersist /\ [][NextPersist]_vars

(* The page reloaded: tasks are added from the form and selected, on a     *)
(* stored session with the settings at either end of their ranges, and     *)
(* the component is initialised again from what the storage holds.         *)

InitReload ==
    \E c \in 0 .. MaxStored, short \in { MinShortBreak, MaxShortBreak },
       long \in { MinLongBreak, MaxLongBreak }, k \in { MinUntil, MaxUntil } :
        \E ts \in { << >>, << [StoredTask(1, MinDuration) EXCEPT !.sessions = c] >> } :
            MountOn(LoadedFrom(Found(ts, 0, c, short, long, k), { }, "granted"))

\* the page is loaded again: every useState initialiser reads the storage
Reload ==
    /\ Commit(Settle(NoRender, LoadedFrom(storage, broken, permission), FALSE))
    /\ form' = EmptyForm
    /\ lastOp' = "reload"
    /\ arg' = 0
    /\ pre' = NoPre
    /\ run' = NoRun
    /\ UNCHANGED << now, entries >>

NextReload ==
    \/ FillForm
    \/ AddTask
    \/ SelectTask
    \/ Reload

SpecReload == InitReload /\ [][NextReload]_vars

(* The page opened on whatever the storage holds: under each key no item,  *)
(* a text that does not parse, the text null, an object lacking members,   *)
(* or the record of a session.                                             *)

FoundTasks ==
    { Absent, Garbage, NullText, tasksText(<< >>),
      tasksText(<< StoredTask(1, MinDuration), StoredTask(2, DefaultDuration) >>) }

FoundIndex == { Absent, Garbage, NullText, indexText(1) }

FoundSession == { Absent, Garbage, NullText, Json(<< >>), sessionText(1) }

FoundSettings ==
    { Absent, Garbage, NullText, Json([ shortBreakTime |-> MinShortBreak + 2 ]),
      settingsText(MinShortBreak + 2, MinLongBreak + 5, MinUntil + 1) }

\* the page is not open yet
InitLoad ==
    /\ storage \in [ tasks : FoundTasks, index : FoundIndex, session : FoundSession,
                      settings : FoundSettings ]
    /\ tasks = << >>
    /\ currentTaskIndex = 0
    /\ timeLeft = 0
    /\ isActive = FALSE
    /\ isBreak = FALSE
    /\ breakType = "short"
    /\ completedSessions = 0
    /\ shortBreakTime = DefaultShortBreak
    /\ longBreakTime = DefaultLongBreak
    /\ sessionsUntilLongBreak = DefaultUntil
    /\ broken = { }
    /\ permission = "granted"
    /\ notes = << >>
    /\ cue = "none"
    /\ form = EmptyForm
    /\ now = 1
    /\ arg = 0
    /\ pre = NoPre
    /\ entries = 0
    /\ lastOp = "closed"
    /\ run = NoRun

\* a TypeError ends the first render: a member is read of the null that
\* loadFromStorage returned (lines 57, 66, 70, 74), or tasks[currentTaskIndex]
\* of the null tasks (line 85)
Throws(found) ==
    \/ found.tasks.kind = "null"
    \/ found.session.kind = "null"
    \/ found.settings.kind = "null"

\* the page is opened and the component mounts
Open ==
    /\ lastOp = "closed"
    /\ ~Throws(storage)
    /\ Commit(Settle(NoRender, LoadedFrom(storage, broken, permission), FALSE))
    /\ lastOp' = "open"
    /\ UNCHANGED << form, now, arg, pre, entries, run >>

\* the page is opened and the first render throws: nothing is shown
OpenThrows ==
    /\ lastOp = "closed"
    /\ Throws(storage)
    /\ lastOp' = "crash"
    /\ UNCHANGED << tasks, currentTaskIndex, timeLeft, isActive, isBreak, breakType,
                    completedSessions, shortBreakTime, longBreakTime,
                    sessionsUntilLongBreak, storage, broken, permission, notes, cue,
                    form, now, arg, pre, entries, run >>

NextLoad == Open \/ OpenThrows

SpecLoad == InitLoad /\ [][NextLoad]_vars

(* The notifications: one stored task, started between the countdowns and *)
(* counted down through the focus phases and the breaks, the permission    *)
(* being granted, denied, not yet answered or the API missing.             *)

\* Notification.permission, or "unsupported" where window has no Notification
Permissions == { "granted", "denied", "default", "unsupported" }

InitNotify ==
    \E perm \in Permissions :
        MountOn(LoadedFrom(Found(<< StoredTask(1, MinDuration) >>, 0, 0,
                                 MinShortBreak, MinLongBreak, MinUntil),
                           { }, perm))

\* the user answers the request the component made on mount
Answer ==
    /\ permission = "default"
    /\ permission' \in { "granted", "denied" }
    /\ lastOp' = "answer"
    /\ cue' = "none"
    /\ notes' = << >>
    /\ arg' = 0
    /\ pre' = NoPre
    /\ UNCHANGED << tasks, currentTaskIndex, timeLeft, isActive, isBreak, breakType,
                    completedSessions, shortBreakTime, longBreakTime,
                    sessionsUntilLongBreak, storage, broken, form, now, entries, run >>

\* the interval fires, in a focus phase while fewer than MaxCycles were completed
TickNotify == (isBreak \/ completedSessions < MaxCycles) /\ TickStep

NextNotify ==
    \/ StartIdle
    \/ TickNotify
    \/ Answer

SpecNotify == InitNotify /\ [][NextNotify]_vars

(* The cursor: from the empty store, tasks titled "a" are added (the clock *)
(* of Date.now() may stand still between two of them), edited, removed,    *)
(* selected and stepped through.                                           *)

InitCursor == MountOn(LoadedFrom(NothingFound, { }, "granted"))

AddCursorTask == AddBelow(MaxCursorTasks, { now, now + 1 })

NextCursor ==
    \/ TitleTyped
    \/ AddCursorTask
    \/ OpenTaskForm
    \/ UpdateTask
    \/ DeleteTask
    \/ SelectTask
    \/ NextTask
    \/ PreviousTask

SpecCursor == InitCursor /\ [][NextCursor]_vars

(* The sessions credited: from the empty store, tasks of the shortest      *)
(* duration are added (the clock of Date.now() may stand still between two *)
(* of them) and selected between the countdowns, and counted down.         *)

\* the title is typed, and a duration that the field raises to the shortest
ShortTaskTyped ==
    /\ ~isActive
    /\ FormOnly(durationTyped(setTaskTitle(form, << "a" >>), MinDuration - 2), "fill", 0)

AddIdle == ~isActive /\ AddTask

NextCredit ==
    \/ ShortTaskTyped
    \/ AddIdle
    \/ SelectIdle
    \/ StartIdle
    \/ TickNotify

SpecCredit == InitCursor /\ [][NextCredit]_vars

(* The handlers called with arguments the buttons never pass: deleteTask   *)
(* with an id that no task of the list has, selectTask with an index that  *)
(* is not a position of the list.                                          *)

\* ids no task has: 0 and what lies beyond the stored ids
DeleteAbsent == \E taskId \in (0 .. MaxRemoveTasks + 1) \ IdsOf(tasks) : Delete(taskId)

\* the two indices next to the list's ends
SelectOutside == \E taskIndex \in { -1, Len(tasks) } : Select(taskIndex)

NextCalls ==
    \/ StartTimer
    \/ TickRemove
    \/ DeleteAbsent
    \/ SelectOutside

SpecCalls == InitRemove /\ [][NextCalls]_vars

---------------------------------------------------------------------------
(* Shorthands of the claims *)

\* the full length in seconds of the current task's focus phase
FocusSeconds == DurationOf(State) * SecondsPerMinute

\* the program's state, without the history variables
app == << tasks, currentTaskIndex, timeLeft, isActive, isBreak, breakType,
          completedSessions, shortBreakTime, longBreakTime,
          sessionsUntilLongBreak >>

\* this step is the tick on which a running focus phase reaches zero
FocusCompletes == lastOp' = "tick" /\ ~isBreak /\ timeLeft = 1

\* this step is the tick on which a running break reaches zero
BreakCompletes == lastOp' = "tick" /\ isBreak /\ timeLeft = 1

\* the task list with the sessions of the task at index i (from 0) one higher
SessionsPlusOne(ts, i) ==
    [ j \in 1 .. Len(ts) |->
        IF j = i + 1 THEN [ts[j] EXCEPT !.sessions = ts[j].sessions + 1] ELSE ts[j] ]

---------------------------------------------------------------------------
(* C1: a fresh start followed by ticks alone counts the focus phase down   *)
(* second by second; the tick number duration*60 enters the break with the *)
(* count of completed sessions one higher, and no later tick of the run    *)
(* (through the break and after it) raises the count again.                *)
C1_OneTransitionPerFocusRun ==
    run.on =>
        /\ run.ticks < FocusSeconds =>
              /\ isActive /\ ~isBreak
              /\ timeLeft = FocusSeconds - run.ticks
              /\ completedSessions = run.base
        /\ run.ticks = FocusSeconds => isActive /\ isBreak
        /\ run.ticks >= FocusSeconds => completedSessions = run.base + 1

\* the run has gone through its focus phase and its whole break
C1_Witness ==
    /\ run.on /\ run.ticks > FocusSeconds
    /\ ~isActive /\ ~isBreak
    /\ completedSessions = run.base + 1

(* C2: the tick that completes a focus phase raises the sessions of the    *)
(* current task by one and leaves every other task as it was.              *)
C2_SessionsOfCurrentTaskOnly ==
    [][ FocusCompletes => tasks' = SessionsPlusOne(tasks, currentTaskIndex) ]_vars

\* a break entered with two tasks, the second one current and credited
C2_Witness ==
    /\ isBreak /\ cue = "breakStart"
    /\ Len(tasks) = 2 /\ currentTaskIndex = 1
    /\ tasks[2].sessions = 1 /\ tasks[1].sessions = 0

(* C3: the break entered at a focus completion is long exactly when the   *)
(* count of completed sessions, after its increment, is a multiple of      *)
(* sessionsUntilLongBreak.                                                 *)
C3_LongBreakEveryKth ==
    [][ FocusCompletes =>
          /\ isBreak'
          /\ completedSessions' = completedSessions + 1
          /\ (breakType' = "long") <=>
                (completedSessions' % sessionsUntilLongBreak' = 0) ]_vars

\* the tenth completion has entered a long break with sessionsUntilLongBreak = 10
C3_Witness ==
    /\ isBreak /\ cue = "breakStart" /\ breakType = "long"
    /\ sessionsUntilLongBreak = MaxUntil /\ completedSessions = MaxUntil

(* C4: at a focus completion the countdown stays running and is set to    *)
(* the full length of the break kind entered.                              *)
C4_BreakStartsRunning ==
    [][ FocusCompletes =>
          /\ isBreak' /\ isActive'
          /\ breakType' = "short" => timeLeft' = shortBreakTime' * SecondsPerMinute
          /\ breakType' = "long" => timeLeft' = longBreakTime' * SecondsPerMinute ]_vars

\* a short break has just been entered, running, at its full length
C4_Witness ==
    /\ isBreak /\ cue = "breakStart" /\ breakType = "short"
    /\ isActive /\ timeLeft = shortBreakTime * SecondsPerMinute

(* C5: the tick on which a running break reaches zero leaves the break,    *)
(* stops the countdown and re-arms it to the current task's duration; the  *)
(* count of completed sessions and the tasks are as before, and the only   *)
(* steps that set a stopped countdown running are start and toggle.        *)
C5_BreakEndsStopped ==
    /\ [][ BreakCompletes =>
             /\ ~isBreak' /\ ~isActive'
             /\ HasTask(State) => timeLeft' = FocusSeconds
             /\ completedSessions' = completedSessions
             /\ tasks' = tasks ]_vars
    /\ [][ ~isActive /\ isActive' => lastOp' \in {"start", "toggle"} ]_vars

\* a break has run out: stopped, out of the break, re-armed
C5_Witness ==
    /\ lastOp = "tick" /\ cue = "focusStart"
    /\ ~isActive /\ ~isBreak /\ HasTask(State) /\ timeLeft = FocusSeconds

(* C6: select, next or previous that moves the cursor leaves the countdown *)
(* stopped, out of the break and at the new current task's full duration.  *)
C6_TaskChangeResetsClock ==
    [][ /\ lastOp' \in {"select", "next", "prev"}
        /\ currentTaskIndex' # currentTaskIndex
        => /\ ~isActive' /\ ~isBreak'
           /\ HasTask(State') => timeLeft' = FocusSeconds' ]_vars

\* next has just moved the cursor to a second task of the same duration as the
\* first, whose session had been completed before
C6_Witness ==
    /\ Len(tasks) = 2 /\ tasks[1].duration = tasks[2].duration
    /\ tasks[1].sessions = 1
    /\ lastOp = "next" /\ currentTaskIndex = 1
    /\ ~isActive /\ ~isBreak /\ timeLeft = FocusSeconds

(* C7: a tick happens only in a state that is running with time left; it   *)
(* takes exactly one second off (the tick from 1 reaches zero, where the   *)
(* phase ends); timeLeft is never negative; and while the countdown is     *)
(* stopped no tick changes it.                                             *)
C7_TickOnlyWhileRunning ==
    /\ [](timeLeft >= 0)
    /\ [][ lastOp' = "tick" =>
             /\ isActive /\ timeLeft > 0
             /\ timeLeft > 1 => timeLeft' = timeLeft - 1 /\ isActive' ]_vars
    /\ [][ ~isActive /\ timeLeft' # timeLeft => lastOp' # "tick" ]_vars

\* a tick in the middle of a phase
C7_Witness == lastOp = "tick" /\ isActive /\ timeLeft > 0 /\ timeLeft < FocusSeconds /\ ~isBreak

(* C8: start with no current task and no break changes nothing (and plays  *)
(* no cue).                                                                *)
C8_StartWithoutTaskIsNoOp ==
    [][ lastOp' = "start" /\ ~HasTask(State) /\ ~isBreak
        => UNCHANGED app /\ cue' = "none" ]_vars

\* start has been invoked on the empty task list
C8_Witness == lastOp = "start" /\ ~HasTask(State) /\ ~isBreak /\ ~isActive

(* C9: start on a stopped clock that is not in a break, with a current     *)
(* task of duration d, gives running = true, timeLeft = d*60, progress 0.  *)
C9_StartArmsFullDuration ==
    [][ lastOp' = "start" /\ FreshStart
        => /\ isActive'
           /\ timeLeft' = FocusSeconds
           /\ progressNum(State') = 0
           /\ tasks' = tasks /\ currentTaskIndex' = currentTaskIndex ]_vars

\* a focus phase of the longer duration has been started after an earlier one
\* was completed and its break stopped
C9_Witness ==
    /\ lastOp = "start" /\ run.on /\ run.ticks = 0
    /\ isActive /\ ~isBreak /\ Credited(tasks) > 0
    /\ tasks[currentTaskIndex + 1].duration = MinDuration + 1

(* C10 (as claimed): toggle flips isActive and changes nothing else, so a *)
(* pause keeps timeLeft.  Stated for the toggle the Pause button makes: on *)
(* a running countdown with a current task.                                *)
C10_ToggleFlipsRunningOnly ==
    [][ lastOp' = "toggle" /\ isActive /\ HasTask(State)
        => /\ isActive' = ~isActive
           /\ UNCHANGED << tasks, currentTaskIndex, timeLeft, isBreak, breakType,
                           completedSessions >> ]_vars

(* C11: reset stops the countdown and restores timeLeft to the full length *)
(* of the current phase (the current task's duration in focus, the length  *)
(* of the current kind of break in a break); the phase, the kind of break, *)
(* the completed-session count and the tasks are not changed.              *)
C11_ResetRestoresPhaseLength ==
    [][ lastOp' = "reset"
        => /\ ~isActive'
           /\ isBreak => timeLeft' = BreakSeconds(State, breakType)
           /\ ~isBreak /\ HasTask(State) => timeLeft' = FocusSeconds
           /\ UNCHANGED << isBreak, breakType, completedSessions, tasks >> ]_vars

\* a long break has been reset after part of it had run
C11_Witness ==
    /\ lastOp = "reset" /\ isBreak /\ breakType = "long" /\ ~isActive
    /\ timeLeft = longBreakTime * SecondsPerMinute

(* C12: stop, with a current task, leaves the clock stopped, out of any    *)
(* break, with timeLeft = the current task's duration * 60; it changes     *)
(* neither the completed-session count nor any task's sessions.            *)
C12_StopReturnsToIdleFocus ==
    [][ lastOp' = "stop" /\ HasTask(State)
        => /\ ~isActive' /\ ~isBreak'
           /\ timeLeft' = FocusSeconds
           /\ UNCHANGED << completedSessions, tasks >> ]_vars

\* stop has been invoked after the current task was credited a session
C12_Witness ==
    /\ lastOp = "stop" /\ HasTask(State) /\ Credited(tasks) > 0
    /\ ~isActive /\ ~isBreak /\ timeLeft = FocusSeconds

(* C13: removing the current task when it is the last of L > 1 tasks sets  *)
(* currentTaskIndex to L - 2; removing it when L = 1 leaves the empty list *)
(* and no current task; removing a task that stands before the current one *)
(* lowers currentTaskIndex by one.  In each case the list loses that task  *)
(* and no other.                                                           *)
C13_RemoveMovesIndex ==
    [][ lastOp' = "delete"
        => LET L == Len(tasks) IN
           \A j \in 0 .. L - 1 :
              tasks[j + 1].id = arg'
              => /\ tasks' = [ m \in 1 .. L - 1 |->
                                 IF m <= j THEN tasks[m] ELSE tasks[m + 1] ]
                 /\ j = currentTaskIndex /\ j = L - 1 /\ L > 1
                        => currentTaskIndex' = L - 2
                 /\ j = currentTaskIndex /\ L = 1
                        => tasks' = << >> /\ ~HasTask(State')
                 /\ j < currentTaskIndex
                        => currentTaskIndex' = currentTaskIndex - 1 ]_vars

\* the current, last task of a list of three has been removed
C13_Witness ==
    /\ lastOp = "delete" /\ arg = MaxRemoveTasks
    /\ Len(tasks) = MaxRemoveTasks - 1 /\ currentTaskIndex = MaxRemoveTasks - 2
    /\ \A j \in 1 .. Len(tasks) : tasks[j].id = j

(* C14: after the removal of a task of the list, whichever it is and       *)
(* whatever the clock was doing, the countdown is stopped and the phase is *)
(* not a break.                                                            *)
C14_RemoveStopsClock ==
    [][ lastOp' = "delete" => ~isActive' /\ ~isBreak' ]_vars

\* a task has been removed while a break was counting down
C14_Witness ==
    /\ lastOp = "delete" /\ pre.isActive /\ pre.isBreak
    /\ ~isActive /\ ~isBreak /\ completedSessions > MaxStored

C17_AddAppendsOneTask ==
    [][ lastOp' = "add" /\ trim(form.title) # << >>
        => LET L == Len(tasks) IN
           /\ Len(tasks') = L + 1
           /\ SubSeq(tasks', 1, L) = tasks
           /\ tasks'[L + 1].sessions = 0
           /\ ~tasks'[L + 1].completed
           /\ tasks'[L + 1].title = trim(form.title)
           /\ L = 0 => currentTaskIndex' = 0 /\ CurrentOf(State') = << tasks'[1] >>
           /\ L > 0 => currentTaskIndex' = currentTaskIndex ]_vars

\* a task titled "b" has been added behind the stored, credited task
C17_Witness ==
    /\ lastOp = "add" /\ Len(tasks) = 2
    /\ tasks[1].sessions = 1 /\ currentTaskIndex = 0
    /\ tasks[2].title = << "b" >> /\ tasks[2].sessions = 0 /\ tasks[2].id = arg

(* C18: addTask and updateTask with a title that is empty after trimming   *)
(* (blanks only included) change nothing: the tasks, the title of the task *)
(* being edited among them, currentTaskIndex and the form are as before.   *)
C18_BlankTitleIsNoOp ==
    [][ lastOp' \in { "add", "update" } /\ trim(form.title) = << >>
        => UNCHANGED << tasks, currentTaskIndex, form >> ]_vars

\* the form's button has been pressed on a title of one blank while a task
\* of the list was being edited
C18_Witness ==
    /\ lastOp = "update" /\ form.title = << " " >>
    /\ \E j \in 1 .. Len(tasks) :
          tasks[j].id = form.editing /\ tasks[j].title = << "a" >>

(* C19: updateTask changes nothing but the title, description, duration,   *)
(* weightage and tags of the task with the id being edited: its id,        *)
(* sessions, completed and position, every other task, the length of the   *)
(* list and currentTaskIndex are as before; when no task has the id the    *)
(* list is as before.                                                      *)
C19_UpdateEditsFiveFields ==
    [][ lastOp' = "update"
        => /\ Len(tasks') = Len(tasks)
           /\ currentTaskIndex' = currentTaskIndex
           /\ \A j \in 1 .. Len(tasks) :
                 IF tasks[j].id = arg'
                 THEN /\ tasks'[j].id = tasks[j].id
                      /\ tasks'[j].sessions = tasks[j].sessions
                      /\ tasks'[j].completed = tasks[j].completed
                 ELSE tasks'[j] = tasks[j]
           /\ arg' \notin IdsOf(tasks) => tasks' = tasks ]_vars

\* the stored, credited task has been given every field of the form
C19_Witness ==
    /\ lastOp = "update" /\ Len(tasks) = 2
    /\ tasks[1].id = arg /\ tasks[1].sessions = 1
    /\ tasks[1].title = << "b" >> /\ tasks[1].description = << "d" >>
    /\ tasks[1].duration = MinDuration /\ tasks[1].weightage = "high"
    /\ tasks[1].tags = << << "x" >>, << "y" >> >>

(* C20 (as claimed): in every reachable state the ids of the tasks are     *)
(* pairwise distinct.                                                      *)
C20_IdsDistinct ==
    \A j, m \in 1 .. Len(tasks) : j # m => tasks[j].id # tasks[m].id

(* C21: whatever is entered in the numeric controls, from the defaults,    *)
(* every task of the list has a duration in [5, 120] and the settings stay *)
(* in their ranges: shortBreakTime in [1, 30], longBreakTime in [5, 60],   *)
(* sessionsUntilLongBreak in [2, 10].                                      *)
C21_EntriesStayInRange ==
    /\ \A j \in 1 .. Len(tasks) :
          tasks[j].duration >= MinDuration /\ tasks[j].duration <= MaxDuration
    /\ shortBreakTime >= MinShortBreak /\ shortBreakTime <= MaxShortBreak
    /\ longBreakTime >= MinLongBreak /\ longBreakTime <= MaxLongBreak
    /\ sessionsUntilLongBreak >= MinUntil /\ sessionsUntilLongBreak <= MaxUntil

\* a task has been stored with the duration a typed 200 was cut down to,
\* and the long break is the one a typed 200 was cut down to
C21_Witness ==
    /\ lastOp = "add" /\ entries = MaxEntries
    /\ Len(tasks) = 1 /\ tasks[1].duration = MaxDuration
    /\ longBreakTime = MaxLongBreak

\* the text saveToStorage writes under key for the state s
textOf(s, key) ==
    CASE key = "tasks" -> tasksText(s.tasks)
      [] key = "index" -> indexText(s.idx)
      [] key = "session" -> sessionText(s.completed)
      [] key = "settings" -> settingsText(s.short, s.long, s.until)

\* what the handler of the operation op, given a, makes of s
PersistHandler(s, op, a) ==
    CASE op = "start" -> startTimer(s)
      [] op = "tick" -> tick(s)
      [] op = "select" -> selectTask(s, a)
      [] op = "delete" -> deleteTask(s, a)
      [] op = "shortPlus" -> shortBreakPlus(s)

PersistOps == { "start", "tick", "select", "delete", "shortPlus" }

\* s with every key writable
Writable(s) == [s EXCEPT !.broken = { }]

\* the state of the component in s, the storage left aside
Memory(s) == [s EXCEPT !.stored = NothingFound, !.broken = { }]

(* C22: when an operation and its effects are through, the record of every *)
(* key that can be written and whose value the operation changed (or that  *)
(* held the value before) holds the value in memory; and whatever keys     *)
(* cannot be written, the operation leaves the memory exactly as it does   *)
(* when every key can be written.                                          *)
C22_PersistedEqualsMemory ==
    [][lastOp' \in PersistOps =>
          /\ \A key \in Keys \ broken :
                (textOf(State, key) # textOf(State', key) \/ storage[key] = textOf(State, key))
                    => storage'[key] = textOf(State', key)
          /\ Memory(State') =
                Memory(Settle(Writable(Rendered),
                              PersistHandler(Writable(Rendered), lastOp', arg'), FALSE))]_vars

\* a focus phase has completed while the session record could not be
\* written: the count went up in memory, the tasks record was written
C22_Witness ==
    /\ lastOp = "tick" /\ broken = { "session" }
    /\ completedSessions = 1 /\ storage.session = sessionText(0)
    /\ tasks # << >> /\ tasks[1].sessions = 1 /\ storage.tasks = tasksText(tasks)

(* C23: a reload gives back what the session held: the tasks, field for    *)
(* field, the index of the current task, the three settings and the count  *)
(* of completed sessions are after the reload what they were before it.    *)
C23_ReloadRestores ==
    [][lastOp' = "reload" =>
          /\ tasks' = tasks
          /\ currentTaskIndex' = currentTaskIndex
          /\ completedSessions' = completedSessions
          /\ shortBreakTime' = shortBreakTime
          /\ longBreakTime' = longBreakTime
          /\ sessionsUntilLongBreak' = sessionsUntilLongBreak]_vars

\* reloaded with the second of two tasks current: one task without
\* description and tags, one with both, a count above 0, the longest breaks
C23_Witness ==
    /\ lastOp = "reload"
    /\ Len(tasks) = 2 /\ currentTaskIndex = 1
    /\ \E j \in 1 .. 2 : tasks[j].description = << >> /\ tasks[j].tags = << >>
    /\ \E j \in 1 .. 2 : tasks[j].description # << >> /\ Len(tasks[j].tags) = 2
    /\ completedSessions > 0
    /\ shortBreakTime = MaxShortBreak /\ longBreakTime = MaxLongBreak
    /\ sessionsUntilLongBreak = MaxUntil

\* the record text holds a JSON value that has the member name
HasMember(text, name) == text.kind = "json" /\ name \in DOMAIN text.v

\* the member name of the record text, or the default where it is not there
MemberOr(text, name, defaultValue) ==
    IF HasMember(text, name) THEN text.v[name] ELSE defaultValue

(* C24: the page opens whatever the storage holds; a record that is absent *)
(* or malformed gives its defaults (no tasks, index 0, count 0, 5/15/4),   *)
(* independently of the other records, which are loaded.                   *)
C24_LoadFallsBack ==
    [][lastOp = "closed" =>
          /\ lastOp' = "open"
          /\ tasks' = IF storage.tasks.kind = "json"
                      THEN [ j \in 1 .. Len(storage.tasks.v) |-> parsedTask(storage.tasks.v[j]) ]
                      ELSE << >>
          /\ currentTaskIndex' = IF storage.index.kind = "json" THEN storage.index.v ELSE 0
          /\ completedSessions' = MemberOr(storage.session, "completedSessions", 0)
          /\ shortBreakTime' = MemberOr(storage.settings, "shortBreakTime", DefaultShortBreak)
          /\ longBreakTime' = MemberOr(storage.settings, "longBreakTime", DefaultLongBreak)
          /\ sessionsUntilLongBreak' =
                MemberOr(storage.settings, "sessionsUntilLongBreak", DefaultUntil)]_vars

(* C25: with the permission granted, the tick that ends a focus phase      *)
(* shows the notification "Focus session complete!" once and nothing else, *)
(* the tick that ends a break shows "Break complete!" once and nothing     *)
(* else; without the permission granted no step shows a notification.      *)
C25_OneNotificationPerTransition ==
    [][/\ (FocusCompletes /\ permission = "granted")
            => notes' = << "Focus session complete!" >>
       /\ (BreakCompletes /\ permission = "granted")
            => notes' = << "Break complete!" >>
       /\ permission # "granted" => notes' = << >>]_vars

\* the break after a completed focus phase has ended and its notification
\* was shown
C25_Witness ==
    /\ lastOp = "tick" /\ completedSessions = 1 /\ ~isBreak /\ ~isActive
    /\ notes = << "Break complete!" >>
    /\ storage.session = sessionText(1)

(* C26: whenever the list holds a task, currentTaskIndex is the index of   *)
(* one of its tasks: a current task exists.                                *)
C26_CursorInRange == tasks # << >> => HasTask(State)

(* C28: the removal of a task that is not the current one leaves the       *)
(* current task, by its id, the current task.                              *)
C28_RemoveOtherKeepsCurrent ==
    [][(/\ lastOp' = "delete"
        /\ HasTask(State)
        /\ arg' \in IdsOf(tasks)
        /\ findIndex(tasks, arg') # currentTaskIndex)
          => /\ HasTask(State')
             /\ currentTask(State').id = currentTask(State).id]_vars

(* C29: no step lowers completedSessions, and the sessions credited to the *)
(* tasks of the list never add up to more than completedSessions.          *)
C29_CountBoundsCredits ==
    [][/\ completedSessions' >= completedSessions
       /\ Credited(tasks') <= completedSessions']_vars

(* C27: while there is a phase (a current task, or a break), timeLeft is   *)
(* at most the full length of the phase, and progress is between 0 and     *)
(* 100.                                                                    *)
C27_TimeLeftWithinPhase ==
    (HasTask(State) \/ isBreak) =>
        /\ timeLeft <= totalTime(State)
        /\ progressNum(State) >= 0
        /\ progressNum(State) <= 100 * totalTime(State)

\* the notifications in ns with the title given
Shown(ns, title) == { j \in 1 .. Len(ns) : ns[j] = title }

RestsAfterBreak ==
    /\ lastOp = "tick" /\ HasTask(State)
    /\ ~isActive /\ ~isBreak /\ timeLeft = FocusSeconds

(* C31: with the interval firing and nothing pressed after the start, a    *)
(* running focus phase leads to a break, a running break leads to the      *)
(* clock standing out of the break at the full length of the current       *)
(* task, and there the application stays.                                  *)
C31_FocusLeadsToBreakLeadsToRest ==
    /\ (isActive /\ ~isBreak /\ HasTask(State)) ~> isBreak
    /\ (isActive /\ isBreak) ~> RestsAfterBreak
    /\ [][RestsAfterBreak => RestsAfterBreak']_vars

\* the run that was started has gone through its focus phase and its break
\* and the clock stands
C31_Witness ==
    /\ RestsAfterBreak
    /\ run.on /\ run.ticks > FocusSeconds
    /\ completedSessions = run.base + 1

\* the index of the last task of the list
LastIndex == Len(tasks) - 1

=============================================================================
